---- MODULE Spec2Model ----
(***************************************************************************)
(* Model of cctool (cctool.py): the MultiDict record type, merged,         *)
(* map_keys and event2person.                                              *)
(*                                                                         *)
(* A MultiDict is an OrderedDict: a sequence of key slots [k, v] in        *)
(* insertion order, v the stored list of values.  MultiDict objects live   *)
(* in `heap` and are referred to by their index, so that in-place          *)
(* mutation and aliasing are visible.                                      *)
(***************************************************************************)
EXTENDS Integers, Sequences, FiniteSets, TLC

VARIABLES
    heap,   \* the MultiDict objects, by object id
    call,   \* the call made last: its name and arguments
    ret,    \* what that call returned or raised
    frame   \* the local variables of a function that is running its loop

vars == <<heap, call, ret, frame>>

----------------------------------------------------------------------------
(* Bounds and input sets *)

MaxLen == 2     \* longest list of values a caller passes in

Keys == {"foo", "bar"}
Values == {"1", "2"}
ValueLists == UNION {[1..n -> Values] : n \in 0..MaxLen}

Range(s) == {s[i] : i \in 1..Len(s)}

----------------------------------------------------------------------------
(* Python values *)

None == "None"
NOTSET == "NOTSET"
Unsupplied == "<unsupplied>"    \* an optional argument the caller left out

NoFrame == [fn |-> "none"]

Return(v) == [val |-> v]
Raise(e) == [exc |-> e]
Raised(r) == "exc" \in DOMAIN r

----------------------------------------------------------------------------
(* OrderedDict *)

EmptyDict == <<>>

HasSlot(self, key) == \E i \in 1..Len(self) : self[i].k = key

SlotIndex(self, key) == CHOOSE i \in 1..Len(self) : self[i].k = key

SuperGetItem(self, key) ==
    IF HasSlot(self, key) THEN Return(self[SlotIndex(self, key)].v)
    ELSE Raise("KeyError")

SetItem(self, key, value) ==
    IF HasSlot(self, key)
    THEN [self EXCEPT ![SlotIndex(self, key)].v = value]
    ELSE Append(self, [k |-> key, v |-> value])

KeysOf(self) == [i \in 1..Len(self) |-> self[i].k]

----------------------------------------------------------------------------
(* MultiDict *)

Contains_AnySlot(self, key) == HasSlot(self, key)

Contains(self, key) ==
    /\ HasSlot(self, key)
    /\ SuperGetItem(self, key) # Return(<<>>)

GetItem(self, key) ==
    IF Contains(self, key) THEN SuperGetItem(self, key) ELSE Return(<<>>)

Get(self, key) == GetItem(self, key).val

FirstDefault(arg) == IF arg = Unsupplied THEN NOTSET ELSE arg

first(self, key, default) ==
    IF Contains(self, key) THEN Return(Get(self, key)[1])
    ELSE IF default # NOTSET THEN Return(default)
    ELSE Raise("KeyError")

JoinDefault(arg) == IF arg = Unsupplied THEN "" ELSE arg

RECURSIVE StrJoin(_, _)
StrJoin(sep, strs) ==
    IF strs = <<>> THEN ""
    ELSE IF Len(strs) = 1 THEN strs[1]
    ELSE strs[1] \o sep \o StrJoin(sep, Tail(strs))

join_NeverRaises(self, key, default, sep) ==
    IF Contains(self, key)
    THEN IF Len(Get(self, key)) = 1 THEN Return(Get(self, key)[1])
         ELSE Return(StrJoin(sep, Get(self, key)))
    ELSE Return(default)

join(self, key, default, sep) ==
    IF Contains(self, key)
    THEN IF Len(Get(self, key)) = 1 THEN Return(Get(self, key)[1])
         ELSE Return(StrJoin(sep, Get(self, key)))
    ELSE IF default # None THEN Return(default)
    ELSE Raise("KeyError")

RECURSIVE append_NoDedup(_, _, _)
append_NoDedup(self, key, values) ==
    IF values = <<>> THEN self
    ELSE append_NoDedup(SetItem(self, key, Get(self, key) \o <<Head(values)>>),
                        key, Tail(values))

RECURSIVE append(_, _, _)
append(self, key, values) ==
    IF values = <<>> THEN self
    ELSE LET value == Head(values)
             next == IF value \in Range(Get(self, key)) THEN self
                     ELSE SetItem(self, key, Get(self, key) \o <<value>>)
         IN  append(next, key, Tail(values))

RECURSIVE UpdateFrom(_, _, _)
UpdateFrom(self, other, i) ==
    IF i > Len(other) THEN self
    ELSE UpdateFrom(append(self, other[i].k, Get(other, other[i].k)), other, i + 1)

update(self, other) == UpdateFrom(self, other, 1)

(* MultiDict defines no __eq__: == is OrderedDict's, dict equality of the   *)
(* slots and, between two OrderedDicts, the same key order                  *)
DictEq(self, other) ==
    /\ Range(KeysOf(self)) = Range(KeysOf(other))
    /\ \A key \in Range(KeysOf(self)) : SuperGetItem(self, key) = SuperGetItem(other, key)

MultiDictEq_Unordered(self, other) == DictEq(self, other)

MultiDictEq(self, other) ==
    /\ DictEq(self, other)
    /\ KeysOf(self) = KeysOf(other)

----------------------------------------------------------------------------
(* map_keys.  A translation table is a dict: key slots [k, v] like a       *)
(* record's, v the name k is mapped to.                                    *)

\* dict((value, key) for key, value in _map.items()): a value met again
\* keeps its place and takes the later key
RECURSIVE ReversedFrom(_, _, _)
ReversedFrom(out, _map, i) ==
    IF i > Len(_map) THEN out
    ELSE ReversedFrom(SetItem(out, _map[i].v, _map[i].k), _map, i + 1)

Reversed(_map) == ReversedFrom(<<>>, _map, 1)

RECURSIVE MapKeysLoop_Assign(_, _, _, _, _)
MapKeysLoop_Assign(outdict, mdict, _map, exclusive, i) ==
    IF i > Len(mdict) THEN outdict
    ELSE LET key == mdict[i].k
             next == IF HasSlot(_map, key)
                     THEN SetItem(outdict, SuperGetItem(_map, key).val, Get(mdict, key))
                     ELSE IF ~exclusive THEN SetItem(outdict, key, Get(mdict, key))
                     ELSE outdict
         IN  MapKeysLoop_Assign(next, mdict, _map, exclusive, i + 1)

RECURSIVE MapKeysLoop_DropsOthers(_, _, _, _, _)
MapKeysLoop_DropsOthers(outdict, mdict, _map, exclusive, i) ==
    IF i > Len(mdict) THEN outdict
    ELSE LET key == mdict[i].k
             next == IF HasSlot(_map, key)
                     THEN append(outdict, SuperGetItem(_map, key).val, Get(mdict, key))
                     ELSE outdict
         IN  MapKeysLoop_DropsOthers(next, mdict, _map, exclusive, i + 1)

RECURSIVE MapKeysLoop(_, _, _, _, _)
MapKeysLoop(outdict, mdict, _map, exclusive, i) ==
    IF i > Len(mdict) THEN outdict
    ELSE LET key == mdict[i].k
             next == IF HasSlot(_map, key)
                     THEN append(outdict, SuperGetItem(_map, key).val, Get(mdict, key))
                     ELSE IF ~exclusive THEN append(outdict, key, Get(mdict, key))
                     ELSE outdict
         IN  MapKeysLoop(next, mdict, _map, exclusive, i + 1)

\* the mapped record, from the record and the table as values
MapKeysOf(mdict, _map, reverse, exclusive) ==
    MapKeysLoop(EmptyDict, mdict, IF reverse THEN Reversed(_map) ELSE _map, exclusive, 1)

\* on the heap h: mdict and _map are objects, outdict is a new one
map_keys_InPlace(h, mdict, _map, reverse, exclusive) ==
    [heap |-> [h EXCEPT ![mdict] = MapKeysOf(h[mdict], h[_map], reverse, exclusive)],
     ref |-> mdict]

map_keys(h, mdict, _map, reverse, exclusive) ==
    [heap |-> Append(h, MapKeysOf(h[mdict], h[_map], reverse, exclusive)),
     ref |-> Len(h) + 1]

----------------------------------------------------------------------------
(* event2person *)

E2PTable == <<[k |-> "summary", v |-> "name"], [k |-> "dtstart", v |-> "bday"]>>

AddsFreq_WhenReverse(reverse, source) == reverse

AddsFreq(reverse, source) == reverse /\ Contains(source, "bday")

Yields_Always(reverse, target) == TRUE

Yields(reverse, target) == ~reverse \/ Contains(target, "dtstart")

\* the loop body on the heap h for the object source: the table literal and
\* the target are new objects
E2PBody(h, source, reverse) ==
    LET h1 == Append(h, E2PTable)
        r == map_keys(h1, source, Len(h1), reverse, FALSE)
        h2 == IF AddsFreq(reverse, r.heap[source])
              THEN [r.heap EXCEPT ![r.ref] = append(@, "freq", <<"yearly">>)]
              ELSE r.heap
    IN  [heap |-> h2, target |-> r.ref, yields |-> Yields(reverse, h2[r.ref])]

----------------------------------------------------------------------------
(* MultiDict(items): the OrderedDict constructor stores the items in order *)

RECURSIVE Construct(_)
Construct(items) ==
    IF items = <<>> THEN EmptyDict
    ELSE SetItem(Construct(SubSeq(items, 1, Len(items) - 1)),
                 items[Len(items)][1], items[Len(items)][2])

Slots == [k : Keys, v : ValueLists]

Records ==
    {r \in UNION {[1..n -> Slots] : n \in 0..Cardinality(Keys)} :
        \A i, j \in 1..Len(r) : r[i].k = r[j].k => i = j}

TestDicts ==
    { Construct(<<>>),
      Construct(<< <<"foo", <<"1", "2">> >> >>),
      Construct(<< <<"bar", <<"2", "2">> >>, <<"foo", <<>> >> >>) }

----------------------------------------------------------------------------
(* Calls on two MultiDict objects, d (object 1) and md (object 2) *)

Defaults == {Unsupplied, None, "N/A"}

CallSetItem(o, key, value) ==
    /\ heap' = [heap EXCEPT ![o] = SetItem(@, key, value)]
    /\ call' = [name |-> "setitem", self |-> o, key |-> key, arg |-> value]
    /\ ret' = Return(None)
    /\ UNCHANGED frame

CallAppend(o, key, values) ==
    /\ heap' = [heap EXCEPT ![o] = append(@, key, values)]
    /\ call' = [name |-> "append", self |-> o, key |-> key, arg |-> values]
    /\ ret' = Return(None)
    /\ UNCHANGED frame

CallUpdate(o, other) ==
    /\ heap' = [heap EXCEPT ![o] = update(@, heap[other])]
    /\ call' = [name |-> "update", self |-> o, other |-> other]
    /\ ret' = Return(None)
    /\ UNCHANGED frame

CallFirst(o, key, default) ==
    /\ ret' = first(heap[o], key, FirstDefault(default))
    /\ call' = [name |-> "first", self |-> o, key |-> key, arg |-> default]
    /\ UNCHANGED <<heap, frame>>

CallJoin(o, key, default) ==
    /\ ret' = join(heap[o], key, JoinDefault(default), ",")
    /\ call' = [name |-> "join", self |-> o, key |-> key, arg |-> default]
    /\ UNCHANGED <<heap, frame>>

(* d = MultiDict() is worked on with every method; md is a given record *)
Init ==
    /\ heap \in {<<EmptyDict, md>> : md \in TestDicts}
    /\ call = [name |-> "MultiDict"]
    /\ ret = Return(None)
    /\ frame = NoFrame

Next ==
    \/ \E key \in Keys, value \in ValueLists : CallSetItem(1, key, value)
    \/ \E key \in Keys, values \in ValueLists : CallAppend(1, key, values)
    \/ \E other \in {1, 2} : CallUpdate(1, other)
    \/ \E key \in Keys, default \in Defaults : CallFirst(1, key, default)
    \/ \E key \in Keys, default \in Defaults : CallJoin(1, key, default)

Spec == Init /\ [][Next]_vars

(* Two given records: d.update(md) and d.update(d) *)
InitUpdate ==
    /\ \E d \in Records, md \in Records : heap = <<d, md>>
    /\ call = [name |-> "MultiDict"]
    /\ ret = Return(None)
    /\ frame = NoFrame

NextUpdate ==
    \E other \in {1, 2} : CallUpdate(1, other)

SpecUpdate == InitUpdate /\ [][NextUpdate]_vars

(* Two given records compared: d == md, md == d, d == d *)
CallEq(o, other) ==
    /\ ret' = Return(MultiDictEq(heap[o], heap[other]))
    /\ call' = [name |-> "eq", self |-> o, other |-> other]
    /\ UNCHANGED <<heap, frame>>

NextEq ==
    \E o \in {1, 2}, other \in {1, 2} : CallEq(o, other)

SpecEq == InitUpdate /\ [][NextEq]_vars

(* map_keys on a given record and table, then one change to the result *)
Names == Keys \cup {"baz"}
TableSlots == [k : Keys, v : Names]

Tables ==
    {t \in UNION {[1..n -> TableSlots] : n \in 0..Cardinality(Keys)} :
        \A i, j \in 1..Len(t) : t[i].k = t[j].k => i = j}

ShortLists == {<<>>, <<"1">>}

CallMapKeys(mdict, _map, reverse, exclusive) ==
    LET r == map_keys(heap, mdict, _map, reverse, exclusive)
    IN  /\ Len(heap) = 2
        /\ heap' = r.heap
        /\ ret' = Return(r.ref)
        /\ call' = [name |-> "map_keys", mdict |-> mdict, map |-> _map,
                    reverse |-> reverse, exclusive |-> exclusive]
        /\ UNCHANGED frame

InitMapKeys ==
    /\ \E d \in Records, t \in Tables : heap = <<d, t>>
    /\ call = [name |-> "MultiDict"]
    /\ ret = Return(None)
    /\ frame = NoFrame

NextMapKeys ==
    \/ \E reverse \in BOOLEAN, exclusive \in BOOLEAN : CallMapKeys(1, 2, reverse, exclusive)
    \/ /\ call.name = "map_keys"
       /\ \/ \E key \in Keys, value \in ShortLists : CallSetItem(ret.val, key, value)
          \/ \E key \in Keys, values \in ShortLists : CallAppend(ret.val, key, values)
          \/ CallUpdate(ret.val, call.mdict)

SpecMapKeys == InitMapKeys /\ [][NextMapKeys]_vars

(* list(event2person(data, reverse)) on given records *)
MaxData == 2    \* most records in data

PersonEventSlots ==
    <<[k |-> "name", v |-> <<"N">>], [k |-> "bday", v |-> <<"D">>],
      [k |-> "dtstart", v |-> <<"E">>], [k |-> "freq", v |-> <<"daily">>]>>

Backwards(s) == [i \in 1..Len(s) |-> s[Len(s) + 1 - i]]

Picked(slots, fields) ==
    LET Test(slot) == slot.k \in fields
    IN  SelectSeq(slots, Test)

E2PRecords ==
    {Picked(PersonEventSlots, fields) : fields \in SUBSET {"name", "bday", "dtstart", "freq"}}
    \cup {Picked(Backwards(PersonEventSlots), fields) :
              fields \in SUBSET {"name", "bday", "dtstart", "freq"}}
    \cup { Construct(<< <<"summary", <<"S">> >>, <<"name", <<"N">> >>, <<"bday", <<"D">> >> >>),
           Construct(<< <<"name", <<"N">> >>, <<"summary", <<"S">> >> >>),
           Construct(<< <<"summary", <<"S">> >>, <<"dtstart", <<"E">> >>, <<"tag", <<"t1", "t2">> >> >>),
           Construct(<< <<"name", <<"N">> >>, <<"bday", <<>> >> >>),
           Construct(<< <<"bday", <<"D">> >>, <<"freq", <<"yearly">> >> >>),
           Construct(<< <<"name", <<"N", "N">> >>, <<"bday", <<"D">> >> >>) }

RECURSIVE DataLists(_)
DataLists(n) ==
    IF n = 0 THEN {<<>>}
    ELSE DataLists(n - 1) \cup
         {Append(l, r) : l \in {x \in DataLists(n - 1) : Len(x) = n - 1}, r \in E2PRecords}

InitE2P ==
    \E records \in DataLists(MaxData), reverse \in BOOLEAN :
        /\ heap = records
        /\ call = [name |-> "event2person",
                   data |-> [i \in 1..Len(records) |-> i], reverse |-> reverse]
        /\ ret = Return(None)
        /\ frame = [fn |-> "event2person", data |-> [i \in 1..Len(records) |-> i],
                    reverse |-> reverse, idx |-> 1, items |-> <<>>]

\* the generator runs its loop body once for list(), which keeps what it yields
E2PNext ==
    /\ frame.fn = "event2person"
    /\ frame.idx <= Len(frame.data)
    /\ LET b == E2PBody(heap, frame.data[frame.idx], frame.reverse)
       IN  /\ heap' = b.heap
           /\ frame' = [frame EXCEPT !.idx = @ + 1,
                                     !.items = IF b.yields THEN Append(@, b.target) ELSE @]
    /\ UNCHANGED <<call, ret>>

E2PReturn ==
    /\ frame.fn = "event2person"
    /\ frame.idx > Len(frame.data)
    /\ ret' = Return(frame.items)
    /\ frame' = NoFrame
    /\ UNCHANGED <<heap, call>>

NextE2P == E2PNext \/ E2PReturn

SpecE2P == InitE2P /\ [][NextE2P]_vars

----------------------------------------------------------------------------
(* merged(data, key) *)

\* not set(entry[key]).isdisjoint(other[key])
Overlap(entry, other, key) == Range(Get(entry, key)) \cap Range(Get(other, key)) # {}

FirstMatch_Last(h, tmp, entry, key) ==
    IF \E j \in 1..Len(tmp) : Overlap(h[entry], h[tmp[j]], key)
    THEN CHOOSE j \in 1..Len(tmp) :
             /\ Overlap(h[entry], h[tmp[j]], key)
             /\ \A i \in (j + 1)..Len(tmp) : ~Overlap(h[entry], h[tmp[i]], key)
    ELSE 0

\* the position in tmp of the object the inner loop breaks on, 0 when the
\* loop runs to its else branch
FirstMatch(h, tmp, entry, key) ==
    IF \E j \in 1..Len(tmp) : Overlap(h[entry], h[tmp[j]], key)
    THEN CHOOSE j \in 1..Len(tmp) :
             /\ Overlap(h[entry], h[tmp[j]], key)
             /\ \A i \in 1..(j - 1) : ~Overlap(h[entry], h[tmp[i]], key)
    ELSE 0

MergedBody_NoUpdate(h, tmp, entry, key) ==
    LET j == FirstMatch(h, tmp, entry, key)
    IN  IF j # 0
        THEN [heap |-> h, tmp |-> tmp]
        ELSE [heap |-> h, tmp |-> Append(tmp, entry)]

MergedBody_Prepend(h, tmp, entry, key) ==
    LET j == FirstMatch(h, tmp, entry, key)
    IN  IF j # 0
        THEN [heap |-> [h EXCEPT ![tmp[j]] = update(@, h[entry])], tmp |-> tmp]
        ELSE [heap |-> h, tmp |-> <<entry>> \o tmp]

\* one round of the outer loop for the object entry
MergedBody(h, tmp, entry, key) ==
    LET j == FirstMatch(h, tmp, entry, key)
    IN  IF j # 0
        THEN [heap |-> [h EXCEPT ![tmp[j]] = update(@, h[entry])], tmp |-> tmp]
        ELSE [heap |-> h, tmp |-> Append(tmp, entry)]

MaxRecords == 3    \* most records in data

MergeRecords ==
    {Construct(items) : items \in
        {foo \o bar : foo \in {<<>>} \cup {<< <<"foo", v>> >> : v \in {<<"1">>, <<"2">>, <<"1", "2">>}},
                      bar \in {<<>>} \cup {<< <<"bar", v>> >> : v \in {<<"1">>, <<"2">>}}}}

RECURSIVE MergeLists(_)
MergeLists(n) ==
    IF n = 0 THEN {<<>>}
    ELSE MergeLists(n - 1) \cup
         {Append(l, r) : l \in {x \in MergeLists(n - 1) : Len(x) = n - 1}, r \in MergeRecords}

\* the data of TestMerged.test_merged
TestMergedData ==
    << Construct(<< <<"foo", <<"1">> >>, <<"bar", <<"1", "2">> >> >>),
       Construct(<< <<"foo", <<"1">> >>, <<"bar", <<"2", "3">> >> >>),
       Construct(<< <<"foo", <<"2">> >>, <<"bar", <<"4">> >> >>),
       Construct(<< <<"bar", <<"5">> >> >>) >>

TestMergedExpected ==
    { Construct(<< <<"foo", <<"1">> >>, <<"bar", <<"1", "2", "3">> >> >>),
      Construct(<< <<"foo", <<"2">> >>, <<"bar", <<"4">> >> >>),
      Construct(<< <<"bar", <<"5">> >> >>) }

\* call.input keeps the records as they were passed: merged updates them in
\* place
InitMerged ==
    \E records \in MergeLists(MaxRecords) \cup {TestMergedData}, key \in Keys :
        /\ heap = records
        /\ call = [name |-> "merged", data |-> [i \in 1..Len(records) |-> i],
                   key |-> key, input |-> records]
        /\ ret = Return(None)
        /\ frame = [fn |-> "merged", data |-> [i \in 1..Len(records) |-> i],
                    key |-> key, idx |-> 1, tmp |-> <<>>]

MergedNext ==
    /\ frame.fn = "merged"
    /\ frame.idx <= Len(frame.data)
    /\ LET b == MergedBody(heap, frame.tmp, frame.data[frame.idx], frame.key)
       IN  /\ heap' = b.heap
           /\ frame' = [frame EXCEPT !.idx = @ + 1, !.tmp = b.tmp]
    /\ UNCHANGED <<call, ret>>

MergedReturn ==
    /\ frame.fn = "merged"
    /\ frame.idx > Len(frame.data)
    /\ ret' = Return(frame.tmp)
    /\ frame' = NoFrame
    /\ UNCHANGED <<heap, call>>

NextMerged == MergedNext \/ MergedReturn

SpecMerged == InitMerged /\ [][NextMerged]_vars

----------------------------------------------------------------------------
(* main *)

PERSON == {"abook", "ldif"}
EVENT == {"bsdcal", "ics"}

\* list(event2person(data, reverse)) on the heap h, from the first k of data
RECURSIVE E2PList(_, _, _, _)
E2PList(h, data, reverse, k) ==
    IF k = 0 THEN [heap |-> h, list |-> <<>>]
    ELSE LET p == E2PList(h, data, reverse, k - 1)
             b == E2PBody(p.heap, data[k], reverse)
         IN  [heap |-> b.heap,
              list |-> IF b.yields THEN Append(p.list, b.target) ELSE p.list]

event2person(h, data, reverse) == E2PList(h, data, reverse, Len(data))

RECURSIVE MergedLoop(_, _, _, _)
MergedLoop(h, data, key, k) ==
    IF k = 0 THEN [heap |-> h, tmp |-> <<>>]
    ELSE LET p == MergedLoop(h, data, key, k - 1)
         IN  MergedBody(p.heap, p.tmp, data[k], key)

merged(h, data, key) ==
    LET r == MergedLoop(h, data, key, Len(data))
    IN  [heap |-> r.heap, list |-> r.tmp]

\* the order of the strings the records hold, as str compares them
StrOrder == <<"D", "E", "M", "N", "R", "S", "daily", "yearly">>

Rank(v) == CHOOSE i \in 1..Len(StrOrder) : StrOrder[i] = v

\* a < b between two lists of strings
RECURSIVE ListLess(_, _)
ListLess(a, b) ==
    IF b = <<>> THEN FALSE
    ELSE IF a = <<>> THEN TRUE
    ELSE IF Head(a) = Head(b) THEN ListLess(Tail(a), Tail(b))
    ELSE Rank(Head(a)) < Rank(Head(b))

\* sorted(data, key=lambda x: x[key]) is stable: x goes in front of the first
\* element its key is less than
RECURSIVE SortedFrom(_, _, _, _)
SortedFrom(h, data, key, k) ==
    IF k = 0 THEN <<>>
    ELSE LET s == SortedFrom(h, data, key, k - 1)
             x == data[k]
             later == {i \in 1..Len(s) : ListLess(Get(h[x], key), Get(h[s[i]], key))}
             p == IF later = {} THEN Len(s) + 1
                  ELSE CHOOSE i \in later : \A j \in later : i <= j
         IN  SubSeq(s, 1, p - 1) \o <<x>> \o SubSeq(s, p, Len(s))

sorted(h, data, key) == SortedFrom(h, data, key, Len(data))

TranslatesToPerson(outformat) == outformat \in PERSON

TranslatesToEvent_Never(outformat) == FALSE

TranslatesToEvent(outformat) == outformat \in EVENT

MaxFiles == 2    \* most input files

InFormats == {"abook", "ics", "json"}
OutFormats == {"abook", "bsdcal", "ics", "json"}
SortKeys == {"name", "summary"}

\* what load gives for a file of the format: abook files hold person fields,
\* ics files event fields (dtstart is optional), json files any field
FileContents(informat) ==
    IF informat = "abook"
    THEN { << Construct(<< <<"name", <<"N">> >>, <<"bday", <<"D">> >> >>) >>,
           << Construct(<< <<"name", <<"N">> >>, <<"bday", <<"D">> >> >>),
              Construct(<< <<"name", <<"M">> >> >>) >> }
    ELSE IF informat = "ics"
    THEN { << Construct(<< <<"summary", <<"S">> >>, <<"dtstart", <<"E">> >> >>) >>,
           << Construct(<< <<"summary", <<"S">> >>, <<"dtstart", <<"E">> >> >>),
              Construct(<< <<"summary", <<"R">> >> >>) >>,
           << Construct(<< <<"summary", <<"N">> >>, <<"dtstart", <<"E">> >>,
                           <<"freq", <<"daily">> >> >>) >> }
    ELSE { << Construct(<< <<"summary", <<"S">> >>, <<"name", <<"N">> >> >>) >>,
           << Construct(<< <<"summary", <<"R">> >> >>) >>,
           << Construct(<< <<"name", <<"N">> >>, <<"bday", <<"D">> >> >>) >> }

InputFiles == UNION {[informat : {f}, records : FileContents(f)] : f \in InFormats}

InitMain ==
    \E files \in UNION {[1..n -> InputFiles] : n \in 1..MaxFiles},
       outformat \in OutFormats,
       merge \in {None} \cup SortKeys, sort \in {None} \cup SortKeys :
        /\ heap = <<>>
        /\ call = [name |-> "main", input |-> files, outformat |-> outformat,
                   merge |-> merge, sort |-> sort]
        /\ ret = Return(None)
        /\ frame = [fn |-> "main", pc |-> "load", idx |-> 1, data |-> <<>>]

\* data += informats[informat]().load(infile), for one file
MainLoad ==
    /\ frame.fn = "main" /\ frame.pc = "load"
    /\ LET loaded == call.input[frame.idx].records
       IN  /\ heap' = heap \o loaded
           /\ frame' = [frame EXCEPT
                  !.data = @ \o [i \in 1..Len(loaded) |-> Len(heap) + i],
                  !.idx = @ + 1,
                  !.pc = IF frame.idx = Len(call.input) THEN "person" ELSE "load"]
    /\ UNCHANGED <<call, ret>>

MainPerson ==
    /\ frame.fn = "main" /\ frame.pc = "person"
    /\ IF TranslatesToPerson(call.outformat)
       THEN LET r == event2person(heap, frame.data, FALSE)
            IN  /\ heap' = r.heap
                /\ frame' = [frame EXCEPT !.data = r.list, !.pc = "event"]
       ELSE /\ heap' = heap
            /\ frame' = [frame EXCEPT !.pc = "event"]
    /\ UNCHANGED <<call, ret>>

MainEvent ==
    /\ frame.fn = "main" /\ frame.pc = "event"
    /\ IF TranslatesToEvent(call.outformat)
       THEN LET r == event2person(heap, frame.data, TRUE)
            IN  /\ heap' = r.heap
                /\ frame' = [frame EXCEPT !.data = r.list, !.pc = "merge"]
       ELSE /\ heap' = heap
            /\ frame' = [frame EXCEPT !.pc = "merge"]
    /\ UNCHANGED <<call, ret>>

MainMerge ==
    /\ frame.fn = "main" /\ frame.pc = "merge"
    /\ IF call.merge # None
       THEN LET r == merged(heap, frame.data, call.merge)
            IN  /\ heap' = r.heap
                /\ frame' = [frame EXCEPT !.data = r.list, !.pc = "sort"]
       ELSE /\ heap' = heap
            /\ frame' = [frame EXCEPT !.pc = "sort"]
    /\ UNCHANGED <<call, ret>>

MainSort ==
    /\ frame.fn = "main" /\ frame.pc = "sort"
    /\ frame' = [frame EXCEPT
           !.data = IF call.sort # None THEN sorted(heap, @, call.sort) ELSE @,
           !.pc = "dump"]
    /\ UNCHANGED <<heap, call, ret>>

\* outformats[outformat]().dump(data, outfile): ret is what is written, the
\* records in the order of data
MainDump ==
    /\ frame.fn = "main" /\ frame.pc = "dump"
    /\ ret' = Return([i \in 1..Len(frame.data) |-> heap[frame.data[i]]])
    /\ frame' = [frame EXCEPT !.pc = "done"]
    /\ UNCHANGED <<heap, call>>

NextMain == MainLoad \/ MainPerson \/ MainEvent \/ MainMerge \/ MainSort \/ MainDump

SpecMain == InitMain /\ [][NextMain]_vars

----------------------------------------------------------------------------
(* Properties *)

\* the list stored for a field, [] when the record has no slot for it
Stored(r, f) ==
    IF \E i \in 1..Len(r) : r[i].k = f
    THEN r[CHOOSE i \in 1..Len(r) : r[i].k = f].v
    ELSE <<>>

\* the values of vals not in seen, in first-seen order, each once
RECURSIVE Fresh(_, _)
Fresh(seen, vals) ==
    IF vals = <<>> THEN <<>>
    ELSE IF Head(vals) \in seen THEN Fresh(seen, Tail(vals))
    ELSE <<Head(vals)>> \o Fresh(seen \cup {Head(vals)}, Tail(vals))

\* C1: for every record reached by item assignments, append and update calls
\* and every field f: `f in r` holds exactly when the list stored for f is
\* non-empty, r[f] never raises and is the stored list, [] when f is absent;
\* right after r[f] = [] the field is absent and r[f] = [].
C1_AbsentIffEmpty ==
    /\ \A o \in DOMAIN heap, f \in Keys :
          /\ Contains(heap[o], f) <=> Stored(heap[o], f) # <<>>
          /\ GetItem(heap[o], f) = Return(Stored(heap[o], f))
    /\ (call.name = "setitem" /\ call.arg = <<>>) =>
          /\ ~Contains(heap[call.self], call.key)
          /\ GetItem(heap[call.self], call.key) = Return(<<>>)

\* r[f] = [] was just executed on a record that still holds the other field
C1_Witness ==
    /\ call.name = "setitem" /\ call.arg = <<>>
    /\ HasSlot(heap[call.self], call.key)
    /\ \E g \in Keys \ {call.key} : Contains(heap[call.self], g)

\* what first/join return for a present field
FirstOf(r, f) == Stored(r, f)[1]
JoinedOf(r, f) ==
    IF Len(Stored(r, f)) = 1 THEN Stored(r, f)[1] ELSE StrJoin(",", Stored(r, f))

\* C2 as stated: first(f) and join(f) raise KeyError whenever f is absent and
\* no default is supplied (for join also when the default is None), and
\* return a value otherwise.
C2_Original ==
    call.name \in {"first", "join"} =>
        LET absent == Stored(heap[call.self], call.key) = <<>>
            nodefault == \/ call.arg = Unsupplied
                         \/ call.name = "join" /\ call.arg = None
        IN  IF absent /\ nodefault THEN ret = Raise("KeyError") ELSE ~Raised(ret)

\* C2 amended: first(f) raises KeyError exactly when f is absent and no default
\* is supplied; join(f) raises KeyError exactly when f is absent and the
\* default is None, and with no default supplied it returns its declared
\* default, the empty string; in every other case the call returns the first
\* value / the joined values of a present field, or the default.
C2_MissingField ==
    call.name \in {"first", "join"} =>
        LET r == heap[call.self]
            f == call.key
            absent == Stored(r, f) = <<>>
        IN  /\ call.name = "first" =>
                  ret = IF ~absent THEN Return(FirstOf(r, f))
                        ELSE IF call.arg = Unsupplied THEN Raise("KeyError")
                        ELSE Return(call.arg)
            /\ call.name = "join" =>
                  ret = IF ~absent THEN Return(JoinedOf(r, f))
                        ELSE IF call.arg = None THEN Raise("KeyError")
                        ELSE IF call.arg = Unsupplied THEN Return("")
                        ELSE Return(call.arg)

\* join(f, default=None) has just raised KeyError on an absent field
C2_Witness ==
    /\ call.name = "join" /\ call.arg = None
    /\ ~Contains(heap[call.self], call.key)
    /\ ret = Raise("KeyError")

\* C3: r.update(other) leaves in every field f the previous r[f] followed by the
\* values of other[f] not yet present, in first-seen order, each once; other is
\* unchanged; the same update made a second time changes nothing, and so does
\* an append of other's values, which are all present by then.
C3_Update ==
    [][call'.name = "update" =>
          LET o == call'.self
              p == call'.other
          IN  /\ \A f \in Keys :
                    Stored(heap'[o], f) =
                        Stored(heap[o], f) \o Fresh(Range(Stored(heap[o], f)), Stored(heap[p], f))
              /\ o # p => heap'[p] = heap[p]
              /\ call = call' => heap' = heap
              /\ \A f \in Keys : append(heap'[o], f, Stored(heap[p], f)) = heap'[o]
      ]_vars

\* an update from another record has just added a value behind the old ones
C3_Witness ==
    /\ call.name = "update" /\ call.self # call.other
    /\ \E f \in Keys :
          /\ Len(Stored(heap[call.self], f)) = 3
          /\ Range(Stored(heap[call.other], f)) = Values

\* C10 as stated: two records compare equal exactly when they have the same
\* present fields with equal value lists, whatever the insertion order.
C10_Original ==
    call.name = "eq" =>
        (ret = Return(TRUE) <=>
            \A f \in Keys : Stored(heap[call.self], f) = Stored(heap[call.other], f))

\* C10 amended: two records compare equal exactly when they have the same key
\* slots (a slot holding [] included) in the same insertion order with equal
\* value lists; equal records have the same present fields and values, but
\* not the other way round.
C10_Equality ==
    call.name = "eq" =>
        LET a == heap[call.self]
            b == heap[call.other]
        IN  /\ ret \in {Return(TRUE), Return(FALSE)}
            /\ ret = Return(TRUE) <=>
                  /\ Len(a) = Len(b)
                  /\ \A i \in 1..Len(a) : a[i].k = b[i].k /\ a[i].v = b[i].v
            /\ ret = Return(TRUE) =>
                  \A f \in Keys : Stored(a, f) = Stored(b, f)

\* two records with the same fields and values in another insertion order
\* have been compared and found unequal
C10_Witness ==
    /\ call.name = "eq" /\ ret = Return(FALSE)
    /\ Len(heap[call.self]) = 2
    /\ KeysOf(heap[call.self]) # KeysOf(heap[call.other])
    /\ \A f \in Keys :
          /\ Stored(heap[call.self], f) = Stored(heap[call.other], f)
          /\ Stored(heap[call.self], f) # <<>>

\* --- map_keys, stated from the record src, the table t and the two flags ---

\* k is a key of the table as map_keys uses it (read backwards under reverse)
Matched(t, rev, k) ==
    IF rev THEN \E j \in 1..Len(t) : t[j].v = k
    ELSE \E j \in 1..Len(t) : t[j].k = k

\* the name a matched k is mapped to; under reverse the last entry with value k
Dest(t, rev, k) ==
    IF rev
    THEN t[CHOOSE j \in 1..Len(t) :
               t[j].v = k /\ \A j2 \in 1..Len(t) : t[j2].v = k => j2 <= j].k
    ELSE t[CHOOSE j \in 1..Len(t) : t[j].k = k].v

\* the i-th source field is present and reaches the output
Carried(src, t, rev, ex, i) ==
    src[i].v # <<>> /\ (Matched(t, rev, src[i].k) \/ ~ex)

OutName(t, rev, k) == IF Matched(t, rev, k) THEN Dest(t, rev, k) ELSE k

\* the output names of the carried source fields i.., in source order
RECURSIVE NamesProduced(_, _, _, _, _)
NamesProduced(src, t, rev, ex, i) ==
    IF i > Len(src) THEN <<>>
    ELSE (IF Carried(src, t, rev, ex, i) THEN <<OutName(t, rev, src[i].k)>> ELSE <<>>)
         \o NamesProduced(src, t, rev, ex, i + 1)

\* the values of the carried source fields i.. that go to name d, concatenated
RECURSIVE Gathered(_, _, _, _, _, _)
Gathered(src, t, rev, ex, d, i) ==
    IF i > Len(src) THEN <<>>
    ELSE (IF Carried(src, t, rev, ex, i) /\ OutName(t, rev, src[i].k) = d
          THEN src[i].v ELSE <<>>)
         \o Gathered(src, t, rev, ex, d, i + 1)

NoDuplicates(vals) == \A i, j \in 1..Len(vals) : vals[i] = vals[j] => i = j

\* C7: map_keys leaves the record it is given and the caller's table as they
\* were (same fields, same order, same values) for every reverse/exclusive,
\* returns a record that is a new object, and a later assignment, append or
\* update on the returned record does not change the given record either.
C7_NonDestructive ==
    [][LET c == IF call'.name = "map_keys" THEN call' ELSE call
       IN  /\ c.name = "map_keys" =>
                 /\ heap'[c.mdict] = heap[c.mdict]
                 /\ heap'[c.map] = heap[c.map]
           /\ call'.name = "map_keys" =>
                 /\ ret'.val \notin DOMAIN heap
                 /\ ret'.val \in DOMAIN heap'
      ]_vars

\* the record map_keys returned has been changed by an append and now differs
\* from the non-empty record map_keys was given
C7_Witness ==
    /\ call.name = "append" /\ call.self = 3 /\ call.arg # <<>>
    /\ Len(heap) = 3
    /\ heap[1] # <<>>
    /\ Contains(heap[3], call.key)
    /\ ~Contains(heap[1], call.key)

\* C8: every present source field that is a key of the (possibly reversed)
\* table appears in the output under its mapped name; the output fields are
\* in the order in which their names are first produced scanning the source
\* fields; a name several source fields go to holds the concatenation of their
\* lists in source-field order with later duplicates removed.
C8_Renaming ==
    call.name = "map_keys" =>
        LET src == heap[call.mdict]
            t == heap[call.map]
            rev == call.reverse
            ex == call.exclusive
            out == heap[ret.val]
        IN  /\ KeysOf(out) = Fresh({}, NamesProduced(src, t, rev, ex, 1))
            /\ \A i \in 1..Len(src) :
                  (src[i].v # <<>> /\ Matched(t, rev, src[i].k)) =>
                      LET d == Dest(t, rev, src[i].k)
                      IN  /\ Contains(out, d)
                          /\ Range(src[i].v) \subseteq Range(Stored(out, d))
                          /\ Stored(out, d) = Fresh({}, Gathered(src, t, rev, ex, d, 1))

\* forward, two present source fields mapped to one name: it holds both lists
C8_Witness ==
    /\ call.name = "map_keys" /\ ~call.reverse /\ call.exclusive
    /\ Len(heap[1]) = 2 /\ Len(heap[2]) = 2
    /\ heap[2][1].v = heap[2][2].v
    /\ heap[1][1].v = <<"1", "2">> /\ heap[1][2].v = <<"2", "1">>
    /\ heap[ret.val] = <<[k |-> heap[2][1].v, v |-> <<"1", "2">>]>>

\* C9 as stated: with exclusive=false every present source field that is not a
\* key of the table is in the output under its own name with exactly its input
\* list, also when a matched field is mapped to that name; with exclusive=true
\* no unmatched field is in the output.
C9_Original ==
    call.name = "map_keys" =>
        LET src == heap[call.mdict]
            t == heap[call.map]
            rev == call.reverse
            ex == call.exclusive
            out == heap[ret.val]
        IN  \A i \in 1..Len(src) :
                (src[i].v # <<>> /\ ~Matched(t, rev, src[i].k)) =>
                    IF ex
                    THEN Stored(out, src[i].k) =
                             Fresh({}, Gathered(src, t, rev, ex, src[i].k, 1))
                    ELSE Stored(out, src[i].k) = src[i].v

\* C9 amended: with exclusive=false every present source field that is not a
\* key of the table is in the output under its own name, at the place where
\* that name is first produced; its output list is its input list with later
\* duplicates removed, unless a matched field is mapped to the same name: then
\* the two are merged, the output list being their concatenation in
\* source-field order with later duplicates removed.  With exclusive=true an
\* unmatched field contributes nothing to the output.
C9_PassThrough ==
    call.name = "map_keys" =>
        LET src == heap[call.mdict]
            t == heap[call.map]
            rev == call.reverse
            ex == call.exclusive
            out == heap[ret.val]
        IN  /\ KeysOf(out) = Fresh({}, NamesProduced(src, t, rev, ex, 1))
            /\ \A i \in 1..Len(src) :
                  (src[i].v # <<>> /\ ~Matched(t, rev, src[i].k)) =>
                      LET k == src[i].k
                          alone == \A j \in 1..Len(src) :
                                      Carried(src, t, rev, ex, j) /\ OutName(t, rev, src[j].k) = k
                                          => j = i
                      IN  IF ex
                          THEN \A d \in Names :
                                 Stored(out, d) = Fresh({}, Gathered([src EXCEPT ![i].v = <<>>],
                                                                     t, rev, ex, d, 1))
                          ELSE /\ Contains(out, k)
                               /\ Stored(out, k) = Fresh({}, Gathered(src, t, rev, ex, k, 1))
                               /\ alone => Stored(out, k) = Fresh({}, src[i].v)
                               /\ (alone /\ NoDuplicates(src[i].v)) => Stored(out, k) = src[i].v

\* non-exclusive, a field the table does not name came through with its list,
\* behind a mapped field
C9_Witness ==
    /\ call.name = "map_keys" /\ ~call.exclusive /\ ~call.reverse
    /\ heap[2] = <<[k |-> "foo", v |-> "baz"]>>
    /\ heap[1] = <<[k |-> "foo", v |-> <<"1", "2">>], [k |-> "bar", v |-> <<"2", "1">>]>>
    /\ heap[ret.val] = <<[k |-> "baz", v |-> <<"1", "2">>], [k |-> "bar", v |-> <<"2", "1">>]>>

\* --- event2person, stated from the source records ---

\* the objects list() has got from the first k sources: the target of the
\* i-th of n sources is object n + 2i (table literal, then target), and it is
\* yielded in forward mode, or when the source has bday or, if own, dtstart
RECURSIVE Emitted(_, _, _, _, _)
Emitted(h, data, reverse, own, k) ==
    IF k = 0 THEN <<>>
    ELSE Emitted(h, data, reverse, own, k - 1) \o
         (IF \/ ~reverse
             \/ Stored(h[data[k]], "bday") # <<>>
             \/ own /\ Stored(h[data[k]], "dtstart") # <<>>
          THEN <<Len(data) + 2 * k>> ELSE <<>>)

SourcesDone == IF frame.fn = "event2person" THEN frame.idx - 1 ELSE Len(call.data)
ItemsSoFar == IF frame.fn = "event2person" THEN frame.items ELSE ret.val

\* C5 as stated: forward, every source yields one record, in input order;
\* reverse, a source yields a record exactly when it has a bday field.
C5_Original ==
    call.name = "event2person" =>
        ItemsSoFar = Emitted(heap, call.data, call.reverse, FALSE, SourcesDone)

\* C5 amended: forward, every source yields one record, in input order, with
\* or without dtstart; reverse, a source yields a record exactly when the
\* translated record has dtstart, that is when the source has a bday field or
\* a dtstart field of its own; the other sources are dropped and the yielded
\* records keep input order.
C5_Emission ==
    call.name = "event2person" =>
        /\ ItemsSoFar = Emitted(heap, call.data, call.reverse, TRUE, SourcesDone)
        /\ \A j \in 1..Len(ItemsSoFar) :
              call.reverse => Contains(heap[ItemsSoFar[j]], "dtstart")

\* reverse mode has returned: the first source, with neither bday nor dtstart,
\* was dropped, the second, with dtstart and no bday, was yielded
C5_Witness ==
    /\ call.name = "event2person" /\ call.reverse /\ frame.fn = "none"
    /\ Len(call.data) = 2
    /\ ~Contains(heap[1], "bday") /\ ~Contains(heap[1], "dtstart")
    /\ ~Contains(heap[2], "bday") /\ Contains(heap[2], "dtstart")
    /\ ret = Return(<<6>>)

E2PFields == {"summary", "dtstart", "name", "bday", "freq", "tag"}

MergedFields == {"foo", "bar"}

\* the values of field f across the records rs
ValuesAcross(rs, f) == UNION {Range(Stored(rs[i], f)) : i \in 1..Len(rs)}

\* the input records whose key values are shared with no other input record
\* (a record without the key field is one of them)
Alone(i) ==
    \A j \in 1..Len(call.input) :
        j # i => Range(Stored(call.input[i], call.key)) \cap
                 Range(Stored(call.input[j], call.key)) = {}

\* one round of merged: an entry sharing a key value with a group is folded
\* into one such group, field by field, its new values after the group's own;
\* an entry sharing none becomes a group of its own
C4_Fold ==
    (frame.fn = "merged" /\ frame'.fn = "merged" /\ frame'.idx = frame.idx + 1) =>
        LET e == frame.data[frame.idx]
            hits == {j \in 1..Len(frame.tmp) :
                        Range(Stored(heap[frame.tmp[j]], frame.key)) \cap
                        Range(Stored(heap[e], frame.key)) # {}}
        IN  IF hits # {}
            THEN /\ frame'.tmp = frame.tmp
                 /\ \E j \in hits :
                      /\ \A f \in MergedFields :
                           Stored(heap'[frame.tmp[j]], f) =
                             Stored(heap[frame.tmp[j]], f) \o
                             Fresh(Range(Stored(heap[frame.tmp[j]], f)), Stored(heap[e], f))
                      /\ \A o \in 1..Len(heap) : o # frame.tmp[j] => heap'[o] = heap[o]
            ELSE /\ frame'.tmp = Append(frame.tmp, e)
                 /\ heap' = heap

\* what merged has returned: distinct records holding, field by field, the
\* values of the input; a record sharing no key value with another input
\* record is an output record as it was passed
C4_Returned ==
    (call.name = "merged" /\ frame.fn = "none") =>
        LET out == ret.val
        IN  /\ \A a, b \in 1..Len(out) : out[a] = out[b] => a = b
            /\ \A f \in MergedFields :
                 ValuesAcross([a \in 1..Len(out) |-> heap[out[a]]], f) = ValuesAcross(call.input, f)
            /\ \A i \in 1..Len(call.input) :
                 Alone(i) => /\ \E a \in 1..Len(out) : out[a] = i
                             /\ heap[i] = call.input[i]
            /\ call.input = TestMergedData /\ call.key = "foo" =>
                 /\ Len(out) = 3
                 /\ {heap[out[a]] : a \in 1..Len(out)} = TestMergedExpected

\* C4: merged(data, key) folds each record sharing a key value with a group
\* into that group by field-wise update, makes a group of every other record,
\* leaves a record whose key field is absent or shared with no other record as
\* its own output record, keeps for every field exactly the input's values, and
\* on the test data gives {foo:[1],bar:[1,2,3]}, {foo:[2],bar:[4]}, {bar:[5]}.
C4_OuterJoin == [][C4_Fold]_vars /\ []C4_Returned

\* merged has returned on the test data: three records, the second input
\* record folded into the first
C4_Witness ==
    /\ call.name = "merged" /\ call.key = "foo" /\ call.input = TestMergedData
    /\ frame.fn = "none"
    /\ ret = Return(<<1, 3, 4>>)
    /\ Stored(heap[1], "bar") = <<"1", "2", "3">>

\* what merged has built so far, and from how many of the input records
GroupsSoFar == IF frame.fn = "merged" THEN frame.tmp ELSE ret.val
EntriesDone == IF frame.fn = "merged" THEN frame.idx - 1 ELSE Len(call.data)

\* C11 as stated: the output lists the records having the key field first, in
\* the order their groups were first met, then the records lacking the key
\* field in their input order; no key-less record precedes a keyed record.
C11_Original ==
    (call.name = "merged" /\ frame.fn = "none") =>
        LET out == ret.val
        IN  /\ \A a, b \in 1..Len(out) :
                 (a < b /\ Contains(heap[out[a]], call.key) = Contains(heap[out[b]], call.key))
                     => out[a] < out[b]
            /\ \A a, b \in 1..Len(out) :
                 (a < b /\ Contains(heap[out[b]], call.key)) => Contains(heap[out[a]], call.key)

\* C11 amended: the output lists the groups in the order in which their first
\* records stand in the input; a record lacking the key field is a group of
\* its own and stands at its input position among the groups, so it precedes
\* every keyed group whose first record comes after it; the records lacking the
\* key field keep their input order, and so do the first records of the keyed
\* groups.
C11_Order ==
    call.name = "merged" =>
        LET out == GroupsSoFar
        IN  /\ \A a, b \in 1..Len(out) : a < b => out[a] < out[b]
            /\ \A a \in 1..Len(out) : out[a] \in 1..EntriesDone
            /\ \A i \in 1..EntriesDone :
                 ~Contains(call.input[i], call.key) =>
                     /\ \E a \in 1..Len(out) : out[a] = i
                     /\ heap[i] = call.input[i]
            /\ EntriesDone > 0 => out[1] = 1

\* merged has returned a record lacking the key field ahead of a keyed one
C11_Witness ==
    /\ call.name = "merged" /\ frame.fn = "none"
    /\ Len(ret.val) = 2
    /\ ~Contains(heap[ret.val[1]], call.key)
    /\ Contains(heap[ret.val[2]], call.key)

MinOf(S) == CHOOSE x \in S : \A y \in S : x <= y

\* the key values the input records S were passed with
KeyValues(S) == UNION {Range(Stored(call.input[i], call.key)) : i \in S}

\* the first k input records put into groups (sets of input positions, in the
\* order the groups are begun): a record joins the earliest group it shares a
\* key value with, judged by the group's first record alone (byFirst) or by
\* all the records in the group so far, and begins a group when there is none
RECURSIVE Grouping(_, _)
Grouping(k, byFirst) ==
    IF k = 0 THEN <<>>
    ELSE LET g == Grouping(k - 1, byFirst)
             hits == {j \in 1..Len(g) :
                         KeyValues(IF byFirst THEN {MinOf(g[j])} ELSE g[j])
                             \cap KeyValues({k}) # {}}
         IN  IF hits = {} THEN Append(g, {k})
             ELSE [g EXCEPT ![MinOf(hits)] = @ \cup {k}]

\* C12 as stated: a record is folded into a group only when it shares a key
\* value with the record that began the group; sharing one only with values
\* brought in by records folded in later makes it begin a new group; a record
\* is folded into at most one group, the earliest it matches.
C12_Original ==
    call.name = "merged" =>
        LET g == Grouping(EntriesDone, TRUE)
        IN  GroupsSoFar = [j \in 1..Len(g) |-> MinOf(g[j])]

\* C12 amended: a record is folded into the earliest group it shares a key
\* value with, where a group's key values are those of the record that began
\* it together with those of every record folded into it so far: sharing a
\* value only with a record folded in later does make the record join.  A
\* record is folded into at most one group and groups are never joined with
\* each other, so the grouping depends on input order and is not the full
\* transitive closure.
C12_Grouping ==
    call.name = "merged" =>
        LET g == Grouping(EntriesDone, FALSE)
            out == GroupsSoFar
        IN  /\ out = [j \in 1..Len(g) |-> MinOf(g[j])]
            /\ \A j \in 1..Len(g) : \A f \in MergedFields :
                 Range(Stored(heap[out[j]], f)) =
                     UNION {Range(Stored(call.input[i], f)) : i \in g[j]}
            /\ \A i \in 1..Len(call.input) :
                 (\A j \in 1..Len(g) : i # MinOf(g[j])) => heap[i] = call.input[i]
            /\ \A i \in 1..EntriesDone :
                 Cardinality({j \in 1..Len(g) : i \in g[j]}) = 1

\* merged has returned one record for [1], [1, 2], [2]: the third record shared
\* a key value only with the second, which had been folded into the first
C12_Witness ==
    /\ call.name = "merged" /\ frame.fn = "none" /\ call.key = "foo"
    /\ Len(call.input) = 3
    /\ Stored(call.input[1], "foo") = <<"1">>
    /\ Stored(call.input[2], "foo") = <<"1", "2">>
    /\ Stored(call.input[3], "foo") = <<"2">>
    /\ ret = Return(<<1>>)

\* --- main, stated from the arguments and the records the files hold ---

\* the records of the first k input files, in the order they are read
RECURSIVE LoadedFrom(_)
LoadedFrom(k) == IF k = 0 THEN <<>> ELSE LoadedFrom(k - 1) \o call.input[k].records

Loaded == LoadedFrom(Len(call.input))

InputFormats == {call.input[i].informat : i \in 1..Len(call.input)}

\* target is src translated: the table's fields renamed, the others as they
\* are, "yearly" added to freq for a person's birthday
TranslatedFrom(target, src, reverse) ==
    \A f \in E2PFields :
        Stored(target, f) =
            IF f = "freq" /\ reverse /\ Stored(src, "bday") # <<>>
            THEN Fresh({}, Stored(src, "freq") \o <<"yearly">>)
            ELSE Fresh({}, Gathered(src, E2PTable, reverse, FALSE, f, 1))

\* data after the translation step: every loaded record translated (forward),
\* or those translated that have bday or dtstart (reverse)
TranslatedAll(reverse) ==
    LET n == Len(Loaded)
    IN  /\ frame.data = Emitted(heap, [i \in 1..n |-> i], reverse, TRUE, n)
        /\ \A i \in 1..n : heap[i] = Loaded[i]
        /\ \A a \in 1..Len(frame.data) :
             LET i == (frame.data[a] - n) \div 2
             IN  TranslatedFrom(heap[frame.data[a]], Loaded[i], reverse)

\* C13 as stated, the translation: forward when the input is of an event
\* format and the output of a person format, reverse when the input is of a
\* person format and the output of an event format; with input and output of
\* one family, or a family-neutral output, the loaded records reach the merge
\* step as they were loaded, none dropped.
C13_Original ==
    (call.name = "main" /\ frame.pc = "merge") =>
        /\ (InputFormats \subseteq EVENT /\ call.outformat \in PERSON) => TranslatedAll(FALSE)
        /\ (InputFormats \subseteq PERSON /\ call.outformat \in EVENT) => TranslatedAll(TRUE)
        /\ (\/ InputFormats \subseteq PERSON /\ call.outformat \in PERSON
            \/ InputFormats \subseteq EVENT /\ call.outformat \in EVENT
            \/ call.outformat \notin PERSON \cup EVENT)
              => [a \in 1..Len(frame.data) |-> heap[frame.data[a]]] = Loaded

\* the translation is chosen by the output format alone
C13_Translation ==
    (call.name = "main" /\ frame.pc = "merge") =>
        /\ call.outformat \in PERSON => TranslatedAll(FALSE)
        /\ call.outformat \in EVENT => TranslatedAll(TRUE)
        /\ call.outformat \notin PERSON \cup EVENT =>
              /\ heap = Loaded
              /\ frame.data = [i \in 1..Len(Loaded) |-> i]

Stages == <<"load", "person", "event", "merge", "sort", "dump", "done">>
Stage(pc) == CHOOSE i \in 1..Len(Stages) : Stages[i] = pc

Position(s, x) == CHOOSE i \in 1..Len(s) : s[i] = x

\* the steps of main come in one order, all files are loaded before the
\* first of the later steps, and a step that is not asked for changes nothing
C13_Steps ==
    (call.name = "main" /\ frame' # frame) =>
        LET pc == frame.pc
            data == frame.data
            after == frame'.data
        IN  /\ \/ Stage(frame'.pc) = Stage(pc) + 1
               \/ pc = "load" /\ frame'.pc = "load"
            /\ pc = "load" =>
                 /\ heap' = LoadedFrom(frame.idx) /\ after = [i \in 1..Len(heap') |-> i]
                 /\ frame'.pc = "person" <=> frame.idx = Len(call.input)
            /\ pc \in {"person", "event"} =>
                 /\ SubSeq(heap', 1, Len(heap)) = heap
                 /\ (Len(heap') = Len(heap) => after = data)
            /\ pc = "merge" =>
                 /\ (call.merge = None => after = data /\ heap' = heap)
                 /\ Len(heap') = Len(heap)
                 /\ Range(after) \subseteq Range(data)
                 /\ \A a, b \in 1..Len(after) :
                      a < b => Position(data, after[a]) < Position(data, after[b])
                 /\ \A f \in E2PFields :
                      ValuesAcross([a \in 1..Len(after) |-> heap'[after[a]]], f) =
                      ValuesAcross([a \in 1..Len(data) |-> heap[data[a]]], f)
            /\ pc = "sort" =>
                 /\ heap' = heap
                 /\ (call.sort = None => after = data)
                 /\ Len(after) = Len(data) /\ Range(after) = Range(data)
                 /\ call.sort # None =>
                      \A a, b \in 1..Len(after) : a < b =>
                          LET ka == Stored(heap[after[a]], call.sort)
                              kb == Stored(heap[after[b]], call.sort)
                          IN  /\ ~ListLess(kb, ka)
                              /\ ka = kb => Position(data, after[a]) < Position(data, after[b])
            /\ pc = "dump" =>
                 /\ heap' = heap /\ after = data
                 /\ ret' = Return([a \in 1..Len(data) |-> heap[data[a]]])

\* C13 amended: the steps run in the fixed order decode all inputs ->
\* translation -> merge -> sort -> encode, merge and sort only when asked
\* for; the translation is applied by the output format alone, whatever the
\* formats of the input: forward to every record when the output is a person
\* format, reverse when the output is an event format - then the records with
\* neither bday nor dtstart are dropped, also when the input is of an event
\* format - and not at all when the output format is family-neutral.
C13_Pipeline == [][C13_Steps]_vars /\ []C13_Translation

\* ics to ics: of the two events loaded the one without dtstart was dropped
\* by the translation, one record has been written
C13_Witness ==
    /\ call.name = "main" /\ frame.pc = "done"
    /\ call.outformat = "ics" /\ InputFormats = {"ics"}
    /\ Len(Loaded) = 2
    /\ ret = Return(<< <<[k |-> "summary", v |-> <<"S">>], [k |-> "dtstart", v |-> <<"E">>]>> >>)

====
